---- MODULE Spec2Model ----
(***************************************************************************)
(* Model of app.py: the process-wide DATA_CACHE, load_data (the rebuild),  *)
(* populate_jobs / populate_resumes, the employer / job_seeker match       *)
(* requests run by concurrent request-handler threads, and clean_text.     *)
(*                                                                         *)
(* Numbers.  The code computes with floats; the model computes in fixed    *)
(* point.  idf weights carry IdfUnit (1.00 = 100), L2-normalised vector    *)
(* entries carry VecUnit (1.0 = 10000), a cosine similarity carries        *)
(* VecUnit * VecUnit, and a returned score is round(score * 100, 2)        *)
(* counted in hundredths of a percent (100.00 = 10000).                    *)
(*                                                                         *)
(* Text.  A token is named by its rank in alphabetical order (the order    *)
(* in which TfidfVectorizer numbers its vocabulary).  The cached-corpus    *)
(* model carries each body as the runs of tokens its cleaned text holds:   *)
(* <<t, n>> is token t written n times.  clean_text itself is modelled     *)
(* character by character further down.                                    *)
(***************************************************************************)
EXTENDS Integers, Sequences, FiniteSets, TLC

\* An optional value: None is <<>>, a value v is <<v>>
None == <<>>
Some(v) == <<v>>

\* ------------------------------------------------------------------ bounds
MaxThreads == 2      \* request-handler threads
MaxOps == 2          \* operations started in one behaviour, threads interleaved
MaxSeqOps == 3       \* operations started in one behaviour, one after the other
MaxRows == 3         \* rows a store table may hold
MaxDbErrors == 1     \* store queries that raise in one behaviour
MaxCorpus == 4       \* documents of a corpus in the ranking check
MaxLen == 5          \* characters of a string given to clean_text
BigTf == 150         \* longest run of one token in a body

\* --------------------------------------------------------------- constants
K == 3               \* [:3]
IdfUnit == 100
VecUnit == 100 * 100

\* ----------------------------------------------------------- small helpers
RECURSIVE SumSeq(_)
SumSeq(s) == IF s = <<>> THEN 0 ELSE Head(s) + SumSeq(Tail(s))

Min(S) == CHOOSE x \in S : \A y \in S : x <= y

RECURSIVE SortedSeq(_)
\* sorted(S) for a finite set of integers
SortedSeq(S) == IF S = {} THEN <<>> ELSE <<Min(S)>> \o SortedSeq(S \ {Min(S)})

RECURSIVE ISqrtIn(_, _, _)
ISqrtIn(n, lo, hi) ==
    IF lo >= hi THEN lo
    ELSE LET mid == (lo + hi + 1) \div 2
         IN  IF mid * mid <= n THEN ISqrtIn(n, mid, hi) ELSE ISqrtIn(n, lo, mid - 1)

\* floor(sqrt(n)); 46340 is the largest root of a 32-bit square
ISqrt(n) == ISqrtIn(n, 0, IF n < 46340 THEN n ELSE 46340)

\* ------------------------------------------------ sklearn: TfidfVectorizer
\* number of times token t is written in body
Tf(body, t) == SumSeq([i \in 1..Len(body) |-> IF body[i][1] = t THEN body[i][2] ELSE 0])

Tokens(body) == {body[i][1] : i \in {j \in 1..Len(body) : body[j][2] > 0}}

\* vocabulary_: the distinct tokens of the corpus, numbered in sorted order
Vocabulary(texts) == SortedSeq(UNION {Tokens(texts[i]) : i \in 1..Len(texts)})

Df(texts, t) == Cardinality({i \in 1..Len(texts) : Tf(texts[i], t) > 0})

\* 100 * ln(k), k = 1..12
LnTable == <<0, 69, 110, 139, 161, 179, 195, 208, 220, 230, 240, 248>>

\* smooth idf: ln((1 + n) / (1 + df)) + 1
Idf(n, df) == LnTable[1 + n] - LnTable[1 + df] + IdfUnit

\* sklearn.preprocessing.normalize, norm='l2': a zero row stays zero
Normalize(v) ==
    LET norm == ISqrt(SumSeq([i \in 1..Len(v) |-> v[i] * v[i]]))
    IN  IF norm = 0 THEN v ELSE [i \in 1..Len(v) |-> (v[i] * VecUnit) \div norm]

\* TfidfVectorizer.transform of one document: tf * idf over the fitted
\* vocabulary, L2-normalised; tokens outside the vocabulary are ignored
Transform(vectorizer, text) ==
    Normalize([i \in 1..Len(vectorizer.vocabulary) |->
                  Tf(text, vectorizer.vocabulary[i]) * vectorizer.idf[i]])

\* TfidfVectorizer.fit_transform: ok = FALSE is ValueError("empty vocabulary"),
\* raised when no document holds a token
FitTransform(texts) ==
    LET voc == Vocabulary(texts)
        vec == [vocabulary |-> voc,
                idf |-> [i \in 1..Len(voc) |-> Idf(Len(texts), Df(texts, voc[i]))]]
    IN  [ok |-> voc /= <<>>,
         vectorizer |-> vec,
         matrix |-> [i \in 1..Len(texts) |-> Transform(vec, texts[i])]]

\* ------------------------------------------- sklearn: cosine_similarity
Dot(u, v) == SumSeq([i \in 1..Len(u) |-> u[i] * v[i]])

\* cosine_similarity(X, Y).flatten() for a one-row X.  Y = None means Y = X;
\* ok = FALSE is the ValueError raised when the column counts differ.
CosineSimilarity(x, Y) ==
    LET YY == IF Y = None THEN <<x>> ELSE Y[1]
        ok == \A i \in 1..Len(YY) : Len(YY[i]) = Len(x)
    IN  [ok |-> ok,
         sim |-> IF ok THEN [i \in 1..Len(YY) |-> Dot(Normalize(x), Normalize(YY[i]))]
                 ELSE <<>>]

\* round(score * 100, 2), in hundredths of a percent.  Python rounds the
\* exact value to the nearest representable hundredth, ties to even.
RoundScore(sim) ==
    LET q == sim \div VecUnit
        r == sim % VecUnit
    IN  IF 2 * r > VecUnit \/ (2 * r = VecUnit /\ q % 2 = 1) THEN q + 1 ELSE q

\* ------------------------------------------------------ employer / job_seeker
RECURSIVE InsertBeforeTies(_, _)
\* an unstable sort: x goes in front of the elements that tie with it
InsertBeforeTies(s, x) ==
    IF s = <<>> THEN <<x>>
    ELSE IF Head(s).score > x.score THEN <<Head(s)>> \o InsertBeforeTies(Tail(s), x)
    ELSE <<x>> \o s

RECURSIVE InsertDesc(_, _)
\* x goes behind every element whose score is at least its own
InsertDesc(s, x) ==
    IF s = <<>> THEN <<x>>
    ELSE IF Head(s).score >= x.score THEN <<Head(s)>> \o InsertDesc(Tail(s), x)
    ELSE <<x>> \o s

RECURSIVE SortedByScore(_)
\* sorted(scored, key=lambda x: x['score'], reverse=True): stable, so equal
\* scores keep the order they were appended in
SortedByScore(s) ==
    IF s = <<>> THEN <<>>
    ELSE InsertDesc(SortedByScore(SubSeq(s, 1, Len(s) - 1)), s[Len(s)])

\* the filter written as score >= 0
PositiveOrZero(cosine_sim) == {i \in 1..Len(cosine_sim) : cosine_sim[i] >= 0}

\* the indices the loop appends: for i, score in enumerate(cosine_sim): if score > 0
Positive(cosine_sim) == {i \in 1..Len(cosine_sim) : cosine_sim[i] > 0}

\* the loop reads docs[i] for every positive score: IndexError past the end
LoopRaises(cosine_sim, docs) == \E i \in Positive(cosine_sim) : i > Len(docs)

Scored(cosine_sim, docs) ==
    LET idx == SortedSeq(Positive(cosine_sim))
    IN  [j \in 1..Len(idx) |->
            [id |-> docs[idx[j]].id, score |-> RoundScore(cosine_sim[idx[j]])]]

\* sorted(...)[:3]
TopMatches(cosine_sim, docs) ==
    LET all == SortedByScore(Scored(cosine_sim, docs))
    IN  SubSeq(all, 1, IF Len(all) < K THEN Len(all) ELSE K)

\* ===================================================================== state
VARIABLES
    store,        \* the database: store[c] is the rows of table c, in query order
    resume_seq,   \* the next autoincrement id of table Resume
    DATA_CACHE,   \* the module-level dict
    pc,           \* pc[t]: where thread t stands
    op,           \* op[t]: the operation thread t runs
    loc,          \* loc[t]: the local variables of thread t
    opsLeft,      \* operations that may still start
    started,      \* an operation has started
    dbErrors,     \* store queries that have raised so far
    quiet,        \* quiet[c]: the cache entry of c at the last boundary of a rebuild
    rebuilt,      \* the corpora some load_data has read from the store and cached
    lastLoad,     \* the last load_data call that has returned, and what it left
    text,         \* clean_text check: the string at hand
    prev,         \* clean_text check: the argument of the last clean_text call
    stage         \* clean_text check: how often clean_text was applied

vars == <<store, resume_seq, DATA_CACHE, pc, op, loc, opsLeft, started, dbErrors, quiet, rebuilt,
          lastLoad, text, prev, stage>>
cleanVars == <<text, prev, stage>>
appVars == <<store, resume_seq, DATA_CACHE, pc, op, loc, opsLeft, started, dbErrors, quiet, rebuilt,
             lastLoad>>

Threads == 1..MaxThreads
Corpora == {"jobs", "resumes"}

VecKey(c) == IF c = "jobs" THEN "job_vectorizer" ELSE "resume_vectorizer"
MatKey(c) == IF c = "jobs" THEN "job_matrix" ELSE "resume_matrix"

\* the corpus a request matches against
CorpusOf(o) == IF o = "employer" THEN "resumes" ELSE "jobs"

\* ------------------------------------------------------------------ inputs
\* tokens, by alphabetical rank: 1 chef, 2 flask, 3 python, 4 zebra
BodyBlank == <<>>                            \* "123": no token left
BodyPy == <<<<3, 1>>>>                       \* "python"
BodyPyFl == <<<<3, 1>>, <<2, 1>>>>           \* "python flask"
BodyPyChefs == <<<<3, 1>>, <<1, BigTf>>>>    \* "python chef chef ... chef"
BodyFl == <<<<2, 1>>>>                       \* "flask"
BodyPyFlasks == <<<<3, 1>>, <<2, BigTf>>>>   \* "python flask flask ... flask"
BodyZebra == <<<<4, 1>>>>                    \* "zebra"

\* the bodies of the rows a table holds at the start
InitPool == {<<>>, <<BodyPy, BodyPyFl>>}

\* the bodies of the rows of a CSV file
CsvPool == {<<BodyBlank>>, <<BodyBlank, BodyBlank>>, <<BodyFl>>}

\* the cleaned texts of the uploads
QueryPool == {<<>>, BodyPy}

\* rows with ids first, first + 1, ...
Rows(bodies, first) == [i \in 1..Len(bodies) |-> [id |-> first + i - 1, body |-> bodies[i]]]

Locals0 ==
    [query |-> <<>>, file |-> FALSE, loaded |-> FALSE, empty |-> FALSE,
     lc |-> "", ret |-> "", data |-> <<>>, before |-> None,
     clear |-> FALSE, csv |-> None, changed |-> FALSE,
     vectorizer |-> None, qvec |-> <<>>, matrix |-> None, cosine_sim |-> <<>>,
     docs |-> <<>>, matches |-> <<>>, exc |-> "", seen |-> {}]

\* DATA_CACHE = {"jobs": [], "resumes": [], "job_vectorizer": None, ...}
Cache0 ==
    [jobs |-> <<>>, resumes |-> <<>>,
     job_vectorizer |-> None, resume_vectorizer |-> None,
     job_matrix |-> None, resume_matrix |-> None]

Entry(cache, c) == [docs |-> cache[c], vectorizer |-> cache[VecKey(c)], matrix |-> cache[MatKey(c)]]

Texts(rows) == [i \in 1..Len(rows) |-> rows[i].body]

\* what one try block of load_data makes of an entry that was empty, when the
\* query goes through: the rows, and the vector space fitted to them, or none
\* when there is no row or the fit raises
Built(rows) ==
    LET ft == FitTransform(Texts(rows))
        fitted == rows /= <<>> /\ ft.ok
    IN  [docs |-> rows,
         vectorizer |-> IF fitted THEN Some(ft.vectorizer) ELSE None,
         matrix |-> IF fitted THEN Some(ft.matrix) ELSE None]

\* the cache once `python app.py` has run its load_data() on the tables
Loaded(jobs, resumes) ==
    [jobs |-> jobs, resumes |-> resumes,
     job_vectorizer |-> Built(jobs).vectorizer, resume_vectorizer |-> Built(resumes).vectorizer,
     job_matrix |-> Built(jobs).matrix, resume_matrix |-> Built(resumes).matrix]

\* the state when app.py has been imported (up is false: the cache is
\* DATA_CACHE as defined) or started as a script (up is true: load_data() has
\* run), with the tables holding jb and rb
Constructed(jb, rb, up) ==
    /\ store = [jobs |-> Rows(jb, 1), resumes |-> Rows(rb, 1)]
    /\ resume_seq = Len(rb) + 1
    /\ DATA_CACHE = IF up THEN Loaded(Rows(jb, 1), Rows(rb, 1)) ELSE Cache0
    /\ pc = [t \in Threads |-> "idle"]
    /\ op = [t \in Threads |-> ""]
    /\ loc = [t \in Threads |-> Locals0]
    /\ quiet = [c \in Corpora |-> Entry(DATA_CACHE, c)]
    /\ rebuilt = IF up THEN Corpora ELSE {}
    /\ lastLoad = IF up THEN Some([store |-> store, runs |-> 1, afterFailure |-> FALSE,
                                   expect |-> DATA_CACHE])
                  ELSE None
    /\ started = up

NoCleanCheck == text = <<>> /\ prev = <<>> /\ stage = "off"

Init ==
    /\ \E jb \in InitPool, rb \in InitPool, up \in BOOLEAN : Constructed(jb, rb, up)
    /\ opsLeft = MaxOps
    /\ dbErrors = 0
    /\ NoCleanCheck

\* ================================================================== actions
LoadPcs == {"ld_read", "ld_docs", "ld_vec", "ld_mat"}

\* a rebuild has replaced the documents of c and not yet its matrix
MidSwap(pcs, locs, c) == \E t \in Threads : pcs[t] \in {"ld_vec", "ld_mat"} /\ locs[t].lc = c

\* thread t has read the vectorizer and not yet the documents of its corpus
Reading(pcs, t) == pcs[t] \in {"sim", "rank"}

\* `python app.py` still runs its load_data(), app.run() has not started
MainRuns == \E t \in Threads : op[t] = "main" /\ pc[t] /= "idle"

\* thread t ends the try block of corpus c with this step: its rebuild of c
\* is complete
EndsSection(t, pcT, c) == pc[t] \in {"ld_docs", "ld_mat"} /\ loc[t].lc = c /\ pcT /= "ld_vec"

\* what a load_data whose queries go through makes of a cache, the tables
\* holding st: the rows replace the documents; the vector space fitted to
\* them, if there is one, replaces the vectorizer and the matrix
Reloaded(cache, st) ==
    LET e(c) == Built(st[c])
        vec(c) == IF e(c).vectorizer /= None THEN e(c).vectorizer ELSE cache[VecKey(c)]
        mat(c) == IF e(c).matrix /= None THEN e(c).matrix ELSE cache[MatKey(c)]
    IN  [jobs |-> st.jobs, resumes |-> st.resumes,
         job_vectorizer |-> vec("jobs"), resume_vectorizer |-> vec("resumes"),
         job_matrix |-> mat("jobs"), resume_matrix |-> mat("resumes")]

\* no other thread than t runs an operation
Alone(t) == \A u \in Threads \ {t} : pc[u] = "idle"

\* History of the load_data call of thread t that returns leaving cache2; None
\* when the call overlapped with another operation.  runs counts the calls in
\* succession over one content of the store whose queries went through (the
\* first of them may have had a query raise), up to 2; expect is what the
\* first of them has left, or would have left had its queries gone through.
Returned(t, cache2) ==
    IF loc[t].before = None \/ ~Alone(t) THEN None
    ELSE
    LET failed == loc[t].before[1].errs < dbErrors \/ pc[t] = "ld_read"
        again == lastLoad /= None /\ lastLoad[1].store = store /\ ~failed
    IN  Some([store |-> store,
              runs |-> IF again THEN 2 ELSE 1,
              afterFailure |-> IF again THEN lastLoad[1].afterFailure ELSE failed,
              expect |-> IF again THEN lastLoad[1].expect
                         ELSE IF failed THEN Reloaded(loc[t].before[1].cache, store)
                         ELSE cache2])

\* One step of thread t that leaves the cache as cache2.  quiet, rebuilt,
\* lastLoad and seen are history.  quiet[c] is the entry of c at the last boundary of a rebuild: when
\* no rebuild was half-way through c, or one had just completed c; seen is the
\* boundary entries that stood while the request was reading.
Step(t, cache2, pcT, locT) ==
    LET pc2 == [pc EXCEPT ![t] = pcT]
        loc2 == [loc EXCEPT ![t] = locT]
        q2 == [c \in Corpora |->
                  IF MidSwap(pc2, loc2, c) /\ ~EndsSection(t, pcT, c)
                  THEN quiet[c] ELSE Entry(cache2, c)]
    IN  /\ DATA_CACHE' = cache2
        /\ pc' = pc2
        /\ quiet' = q2
        /\ rebuilt' = rebuilt \cup {c \in Corpora : EndsSection(t, pcT, c)}
        /\ lastLoad' = IF pc[t] \in LoadPcs /\ pcT \notin LoadPcs
                       THEN Returned(t, cache2) ELSE lastLoad
        /\ loc' = [u \in Threads |->
                      IF Reading(pc2, u)
                      THEN [loc2[u] EXCEPT !.seen = @ \cup {q2[CorpusOf(op[u])]}]
                      ELSE loc2[u]]

\* a step of thread t that touches neither cache nor store
Local(t, pcT, locT) ==
    /\ Step(t, DATA_CACHE, pcT, locT)
    /\ UNCHANGED <<store, resume_seq, op, opsLeft, started, dbErrors, cleanVars>>

\* --- load_data ----------------------------------------------------------
\* load_data(): the locals of a call that returns to pc `ret`; before is
\* history, the cache the call has found
CallLoad(l, ret) ==
    [l EXCEPT !.lc = "jobs", !.ret = ret, !.data = <<>>, !.loaded = TRUE,
              !.before = IF \E u \in Threads : pc[u] \in LoadPcs THEN None
                         ELSE Some([cache |-> DATA_CACHE, errs |-> dbErrors])]

\* the end of one try block: on to the resumes, or return
AfterSection(t, cache2, l) ==
    IF l.lc = "jobs"
    THEN Step(t, cache2, "ld_read", [l EXCEPT !.lc = "resumes", !.data = <<>>])
    ELSE Step(t, cache2, l.ret, [l EXCEPT !.lc = "", !.ret = "", !.data = <<>>, !.before = None])

\* for job in Job.query.yield_per(1000): ... job_data.append(...)
LdReadOk(t) ==
    /\ pc[t] = "ld_read"
    /\ Local(t, "ld_docs", [loc[t] EXCEPT !.data = store[loc[t].lc]])

\* the query raises and the handler resets the entry of the corpus
LdReadRaiseReset(t) ==
    /\ pc[t] = "ld_read"
    /\ dbErrors < MaxDbErrors
    /\ dbErrors' = dbErrors + 1
    /\ AfterSection(t, [DATA_CACHE EXCEPT ![loc[t].lc] = <<>>,
                                          ![VecKey(loc[t].lc)] = None,
                                          ![MatKey(loc[t].lc)] = None], loc[t])
    /\ UNCHANGED <<store, resume_seq, op, opsLeft, started, cleanVars>>

\* the query raises (the database is unreachable): except Exception, print
LdReadRaise(t) ==
    /\ pc[t] = "ld_read"
    /\ dbErrors < MaxDbErrors
    /\ dbErrors' = dbErrors + 1
    /\ AfterSection(t, DATA_CACHE, loc[t])
    /\ UNCHANGED <<store, resume_seq, op, opsLeft, started, cleanVars>>

\* the rows are appended to the cached list instead of replacing it
AppendDocs(cache, c, rows) == [cache EXCEPT ![c] = @ \o rows]

\* DATA_CACHE["jobs"] = job_data
SetDocs(cache, c, rows) == [cache EXCEPT ![c] = rows]

\* DATA_CACHE["jobs"] = job_data; if job_texts: fit_transform (may raise)
LdSetDocs(t) ==
    /\ pc[t] = "ld_docs"
    /\ LET l == loc[t]
           cache2 == SetDocs(DATA_CACHE, l.lc, l.data)
       IN  IF l.data /= <<>> /\ FitTransform(Texts(l.data)).ok
           THEN Step(t, cache2, "ld_vec", l)
           ELSE AfterSection(t, cache2, l)
    /\ UNCHANGED <<store, resume_seq, op, opsLeft, started, dbErrors, cleanVars>>

\* DATA_CACHE["job_vectorizer"] = vectorizer
LdSetVectorizer(t) ==
    /\ pc[t] = "ld_vec"
    /\ LET l == loc[t]
       IN  Step(t, [DATA_CACHE EXCEPT ![VecKey(l.lc)] =
                       Some(FitTransform(Texts(l.data)).vectorizer)], "ld_mat", l)
    /\ UNCHANGED <<store, resume_seq, op, opsLeft, started, dbErrors, cleanVars>>

\* DATA_CACHE["job_matrix"] = matrix
LdSetMatrix(t) ==
    /\ pc[t] = "ld_mat"
    /\ LET l == loc[t]
       IN  AfterSection(t, [DATA_CACHE EXCEPT ![MatKey(l.lc)] =
                               Some(FitTransform(Texts(l.data)).matrix)], l)
    /\ UNCHANGED <<store, resume_seq, op, opsLeft, started, dbErrors, cleanVars>>

\* --- operations start -----------------------------------------------------
\* threads are interchangeable: a new operation takes the first free one
CanStart(t) ==
    /\ pc[t] = "idle" /\ opsLeft > 0 /\ ~MainRuns
    /\ \A u \in Threads : u < t => pc[u] /= "idle"

\* if __name__ == '__main__': load_data(), before the server accepts requests
StartMain(t) ==
    /\ CanStart(t) /\ ~started
    /\ op' = [op EXCEPT ![t] = "main"]
    /\ opsLeft' = opsLeft - 1 /\ started' = TRUE
    /\ Step(t, DATA_CACHE, "ld_read", CallLoad(Locals0, "done"))
    /\ UNCHANGED <<store, resume_seq, dbErrors, cleanVars>>

\* the thread is free for the next operation
Return(t) ==
    /\ pc[t] \in {"done", "raised"}
    /\ op' = [op EXCEPT ![t] = ""]
    /\ Step(t, DATA_CACHE, "idle", Locals0)
    /\ UNCHANGED <<store, resume_seq, opsLeft, started, dbErrors, cleanVars>>

\* --- populate_jobs / populate_resumes -----------------------------------
PopName(c) == IF c = "jobs" THEN "populate_jobs" ELSE "populate_resumes"
PopCorpus(o) == IF o = "populate_jobs" THEN "jobs" ELSE "resumes"

\* populate_jobs(clear) / populate_resumes(clear); csv is None when the CSV
\* file does not exist; changed is history, the call has deleted or added rows.
\* if clear: db.session.query(Job).delete(); db.session.commit()
StartPopulate(t, c, clear, csv) ==
    /\ CanStart(t)
    /\ csv /= None =>
          (IF clear THEN 0 ELSE Len(store[c])) + Len(csv[1]) <= MaxRows
    /\ op' = [op EXCEPT ![t] = PopName(c)]
    /\ opsLeft' = opsLeft - 1 /\ started' = TRUE
    /\ store' = IF clear THEN [store EXCEPT ![c] = <<>>] ELSE store
    /\ Step(t, DATA_CACHE, "pop_add",
            [Locals0 EXCEPT !.clear = clear, !.csv = csv,
                            !.changed = clear /\ store[c] /= <<>>])
    /\ UNCHANGED <<resume_seq, dbErrors, cleanVars>>

\* os.path.exists(...) is false: print("No jobs CSV found.")
PopNoCsv(t) ==
    /\ pc[t] = "pop_add"
    /\ loc[t].csv = None
    /\ Local(t, "done", loc[t])

\* Job(id=row['ID'], ...) takes its id from the file, here 1, 2, ...;
\* Resume(...) gets the next autoincrement ids
NewRows(c, bodies) == Rows(bodies, IF c = "jobs" THEN 1 ELSE resume_seq)

\* the commit violates the primary key: an id of the file is in the table
KeyClash(c, bodies) ==
    \E i \in 1..Len(store[c]), j \in 1..Len(bodies) :
        store[c][i].id = NewRows(c, bodies)[j].id

\* add_all, commit, then load_data()
PopAdd(t) ==
    /\ pc[t] = "pop_add"
    /\ loc[t].csv /= None
    /\ LET c == PopCorpus(op[t])
           bodies == loc[t].csv[1]
       IN  /\ ~KeyClash(c, bodies)
           /\ store' = [store EXCEPT ![c] = @ \o NewRows(c, bodies)]
           /\ resume_seq' = IF c = "resumes" THEN resume_seq + Len(bodies) ELSE resume_seq
    /\ Step(t, DATA_CACHE, "ld_read",
            CallLoad([loc[t] EXCEPT !.changed = @ \/ loc[t].csv[1] /= <<>>], "done"))
    /\ UNCHANGED <<op, opsLeft, started, dbErrors, cleanVars>>

\* the commit raises: except Exception: db.session.rollback(), print
PopAddRaise(t) ==
    /\ pc[t] = "pop_add"
    /\ loc[t].csv /= None
    /\ KeyClash(PopCorpus(op[t]), loc[t].csv[1])
    /\ Local(t, "done", loc[t])

\* --- employer / job_seeker ------------------------------------------------
\* not DATA_CACHE["resume_vectorizer"] or DATA_CACHE["resume_matrix"] is None
CacheAbsent(c) == DATA_CACHE[VecKey(c)] = None \/ DATA_CACHE[MatKey(c)] = None

\* POST with a .txt (employer) or .pdf (job_seeker) file: file.save, extract,
\* clean_text (q is the cleaned text of the upload); then the cache is found
\* absent: load_data()
CheckAbsent(t, o, q) ==
    /\ CanStart(t)
    /\ CacheAbsent(CorpusOf(o))
    /\ op' = [op EXCEPT ![t] = o]
    /\ opsLeft' = opsLeft - 1 /\ started' = TRUE
    /\ Step(t, DATA_CACHE, "ld_read",
            CallLoad([Locals0 EXCEPT !.query = q, !.file = TRUE], "empty"))
    /\ UNCHANGED <<store, resume_seq, dbErrors, cleanVars>>

\* the same, and the cache is found present
CheckPresent(t, o, q) ==
    /\ CanStart(t)
    /\ ~CacheAbsent(CorpusOf(o))
    /\ op' = [op EXCEPT ![t] = o]
    /\ opsLeft' = opsLeft - 1 /\ started' = TRUE
    /\ Step(t, DATA_CACHE, "empty", [Locals0 EXCEPT !.query = q, !.file = TRUE])
    /\ UNCHANGED <<store, resume_seq, dbErrors, cleanVars>>

\* the empty list does not end the request: it goes on to transform
EmptyFallsThrough(t) ==
    /\ pc[t] = "empty"
    /\ DATA_CACHE[CorpusOf(op[t])] = <<>>
    /\ Local(t, "vec", [loc[t] EXCEPT !.empty = TRUE])

\* if not DATA_CACHE["resumes"]: os.remove(filepath); return matches=[]
EmptyReturn(t) ==
    /\ pc[t] = "empty"
    /\ DATA_CACHE[CorpusOf(op[t])] = <<>>
    /\ Local(t, "done", [loc[t] EXCEPT !.empty = TRUE, !.file = FALSE, !.matches = <<>>])

EmptyPass(t) ==
    /\ pc[t] = "empty"
    /\ DATA_CACHE[CorpusOf(op[t])] /= <<>>
    /\ Local(t, "vec", loc[t])

\* the cached vectorizer is fitted again, to the query: fit_transform([cleaned])
GetVectorizerRefit(t) ==
    /\ pc[t] = "vec"
    /\ LET c == CorpusOf(op[t])
           v == DATA_CACHE[VecKey(c)]
           w == FitTransform(<<loc[t].query>>).vectorizer
       IN  /\ v /= None
           /\ Step(t, [DATA_CACHE EXCEPT ![VecKey(c)] = Some(w)], "sim",
                   [loc[t] EXCEPT !.vectorizer = Some(w),
                                  !.qvec = Transform(w, loc[t].query),
                                  !.seen = {quiet[c]}])
           /\ UNCHANGED <<store, resume_seq, op, opsLeft, started, dbErrors, cleanVars>>

\* vectorizer = DATA_CACHE["resume_vectorizer"]; vectorizer.transform([cleaned])
GetVectorizer(t) ==
    /\ pc[t] = "vec"
    /\ LET c == CorpusOf(op[t])
           v == DATA_CACHE[VecKey(c)]
       IN  /\ v /= None
           /\ Local(t, "sim", [loc[t] EXCEPT !.vectorizer = v,
                                             !.qvec = Transform(v[1], loc[t].query),
                                             !.seen = {quiet[c]}])

\* the vectorizer is None: None.transform raises AttributeError
GetVectorizerNone(t) ==
    /\ pc[t] = "vec"
    /\ DATA_CACHE[VecKey(CorpusOf(op[t]))] = None
    /\ Local(t, "raised", [loc[t] EXCEPT !.exc = "AttributeError"])

\* cosine_similarity(job_vector, DATA_CACHE["resume_matrix"]).flatten()
Similarity(t) ==
    /\ pc[t] = "sim"
    /\ LET m == DATA_CACHE[MatKey(CorpusOf(op[t]))]
           cs == CosineSimilarity(loc[t].qvec, m)
       IN  /\ cs.ok
           /\ Local(t, "rank", [loc[t] EXCEPT !.matrix = m, !.cosine_sim = cs.sim])

\* the matrix has another number of columns than the query vector: ValueError
SimilarityRaise(t) ==
    /\ pc[t] = "sim"
    /\ LET m == DATA_CACHE[MatKey(CorpusOf(op[t]))]
       IN  /\ ~CosineSimilarity(loc[t].qvec, m).ok
           /\ Local(t, "raised", [loc[t] EXCEPT !.matrix = m, !.exc = "ValueError"])

\* resumes = DATA_CACHE["resumes"]; the loop; sorted(...)[:3]; os.remove
Rank(t) ==
    /\ pc[t] = "rank"
    /\ LET d == DATA_CACHE[CorpusOf(op[t])]
       IN  /\ ~LoopRaises(loc[t].cosine_sim, d)
           /\ Local(t, "done", [loc[t] EXCEPT !.docs = d, !.file = FALSE,
                                              !.matches = TopMatches(loc[t].cosine_sim, d)])

\* resumes[i] past the end of the cached list: IndexError
RankRaise(t) ==
    /\ pc[t] = "rank"
    /\ LET d == DATA_CACHE[CorpusOf(op[t])]
       IN  /\ LoopRaises(loc[t].cosine_sim, d)
           /\ Local(t, "raised", [loc[t] EXCEPT !.docs = d, !.exc = "IndexError"])

\* ------------------------------------------------------------ specification
Requests == {"employer", "job_seeker"}
CsvFiles == {None} \cup {Some(f) : f \in CsvPool}

Next ==
    \E t \in Threads :
        \/ StartMain(t)
        \/ \E o \in Requests, q \in QueryPool : CheckAbsent(t, o, q)
        \/ \E o \in Requests, q \in QueryPool : CheckPresent(t, o, q)
        \/ \E c \in Corpora, clear \in BOOLEAN, csv \in CsvFiles : StartPopulate(t, c, clear, csv)
        \/ LdReadOk(t) \/ LdReadRaise(t) \/ LdSetDocs(t)
        \/ LdSetVectorizer(t) \/ LdSetMatrix(t)
        \/ PopNoCsv(t) \/ PopAdd(t) \/ PopAddRaise(t)
        \/ EmptyReturn(t) \/ EmptyPass(t)
        \/ GetVectorizer(t) \/ GetVectorizerNone(t)
        \/ Similarity(t) \/ SimilarityRaise(t) \/ Rank(t) \/ RankRaise(t)
        \/ Return(t)

Spec == Init /\ [][Next]_vars

\* --- one operation after the other ------------------------------------------
InitSeq ==
    /\ \E jb \in InitPool, rb \in InitPool : Constructed(jb, rb, FALSE)
    /\ opsLeft = MaxSeqOps
    /\ dbErrors = 0
    /\ NoCleanCheck

\* a single thread: every action but SimilarityRaise, which needs a matrix
\* replaced between two reads of one request
NextSeq ==
    \E t \in {1} :
        \/ StartMain(t)
        \/ \E o \in Requests, q \in QueryPool : CheckAbsent(t, o, q)
        \/ \E o \in Requests, q \in QueryPool : CheckPresent(t, o, q)
        \/ \E c \in Corpora, clear \in BOOLEAN, csv \in CsvFiles : StartPopulate(t, c, clear, csv)
        \/ LdReadOk(t) \/ LdReadRaise(t) \/ LdSetDocs(t)
        \/ LdSetVectorizer(t) \/ LdSetMatrix(t)
        \/ PopNoCsv(t) \/ PopAdd(t) \/ PopAddRaise(t)
        \/ EmptyReturn(t) \/ EmptyPass(t)
        \/ GetVectorizer(t) \/ GetVectorizerNone(t)
        \/ Similarity(t) \/ Rank(t) \/ RankRaise(t)
        \/ Return(t)

SpecSeq == InitSeq /\ [][NextSeq]_vars

\* --- one match request on a freshly built cache -----------------------------
SeqsUpTo(S, n) == UNION {[1..k -> S] : k \in 0..n}

MatchBodies == {BodyPy, BodyPyFl, BodyPyChefs, BodyFl}
MatchQueries == {<<>>, BodyPy, BodyPyFlasks, BodyZebra}

\* one table holds any corpus of up to MaxCorpus documents, the other is empty
InitMatch ==
    /\ \E c \in Corpora, bodies \in SeqsUpTo(MatchBodies, MaxCorpus) :
          Constructed(IF c = "jobs" THEN bodies ELSE <<>>,
                      IF c = "resumes" THEN bodies ELSE <<>>, FALSE)
    /\ opsLeft = 1
    /\ dbErrors = MaxDbErrors
    /\ NoCleanCheck

NextMatch ==
    \E t \in {1} :
        \/ \E o \in Requests, q \in MatchQueries : CheckAbsent(t, o, q)
        \/ LdReadOk(t) \/ LdSetDocs(t) \/ LdSetVectorizer(t) \/ LdSetMatrix(t)
        \/ EmptyReturn(t) \/ EmptyPass(t)
        \/ GetVectorizer(t) \/ Similarity(t) \/ Rank(t)
        \/ Return(t)

SpecMatch == InitMatch /\ [][NextMatch]_vars

\* ================================================================ clean_text
\* A string is a sequence of characters.
LowerCase == <<"a", "b", "c", "d", "e", "f", "g", "h", "i", "j", "k", "l", "m",
               "n", "o", "p", "q", "r", "s", "t", "u", "v", "w", "x", "y", "z">>
UpperCase == <<"A", "B", "C", "D", "E", "F", "G", "H", "I", "J", "K", "L", "M",
               "N", "O", "P", "Q", "R", "S", "T", "U", "V", "W", "X", "Y", "Z">>
Range(f) == {f[i] : i \in DOMAIN f}

\* [a-zA-Z]
Letters == Range(LowerCase) \cup Range(UpperCase)
\* \s
WhiteSpace == {" ", "\t", "\n", "\r", "\f"}

\* s[i..], s[..i]
From(s, i) == SubSeq(s, i, Len(s))
StartsWith(s, p) == Len(s) >= Len(p) /\ SubSeq(s, 1, Len(p)) = p

\* the length of the longest prefix of s made of characters outside S
RECURSIVE RunOutside(_, _)
RunOutside(s, S) == IF s = <<>> \/ Head(s) \in S THEN 0 ELSE 1 + RunOutside(Tail(s), S)

\* the length of the longest prefix of s made of characters of S
RECURSIVE RunInside(_, _)
RunInside(s, S) == IF s = <<>> \/ Head(s) \notin S THEN 0 ELSE 1 + RunInside(Tail(s), S)

\* <[^>]+> matched at the head of s: the length of the match, 0 for none
TagMatch(s) ==
    IF s /= <<>> /\ Head(s) = "<"
       /\ RunOutside(Tail(s), {">"}) >= 1
       /\ RunOutside(Tail(s), {">"}) < Len(s) - 1
    THEN RunOutside(Tail(s), {">"}) + 2
    ELSE 0

\* http\S+|www\S+|https\S+ matched at the head of s (https\S+ never gets its
\* turn: http\S+ matches wherever it would)
UrlPrefix(s, p) == StartsWith(s, p) /\ RunOutside(From(s, Len(p) + 1), WhiteSpace) >= 1
UrlMatch(s) ==
    IF UrlPrefix(s, <<"h", "t", "t", "p">>) THEN 4 + RunOutside(From(s, 5), WhiteSpace)
    ELSE IF UrlPrefix(s, <<"w", "w", "w">>) THEN 3 + RunOutside(From(s, 4), WhiteSpace)
    ELSE 0

RECURSIVE StripTags(_)
\* re.sub(r'<[^>]+>', ' ', text)
StripTags(s) ==
    IF s = <<>> THEN <<>>
    ELSE IF TagMatch(s) > 0 THEN <<" ">> \o StripTags(From(s, TagMatch(s) + 1))
    ELSE <<Head(s)>> \o StripTags(Tail(s))

RECURSIVE StripUrls(_)
\* re.sub(r'http\S+|www\S+|https\S+', ' ', text, flags=re.MULTILINE)
StripUrls(s) ==
    IF s = <<>> THEN <<>>
    ELSE IF UrlMatch(s) > 0 THEN <<" ">> \o StripUrls(From(s, UrlMatch(s) + 1))
    ELSE <<Head(s)>> \o StripUrls(Tail(s))

KeepLetter(ch) == ch \in Letters \cup WhiteSpace
\* re.sub(r'[^a-zA-Z\s]', '', text)
StripNonAlpha(s) == SelectSeq(s, KeepLetter)

\* runs of whitespace are left as they are
KeepRuns(s) == s

RECURSIVE Collapse(_)
\* re.sub(r'\s+', ' ', text)
Collapse(s) ==
    IF s = <<>> THEN <<>>
    ELSE IF Head(s) \in WhiteSpace
         THEN <<" ">> \o Collapse(From(s, 1 + RunInside(s, WhiteSpace)))
    ELSE <<Head(s)>> \o Collapse(Tail(s))

RECURSIVE StripRight(_)
StripRight(s) ==
    IF s /= <<>> /\ s[Len(s)] \in WhiteSpace THEN StripRight(SubSeq(s, 1, Len(s) - 1)) ELSE s

\* str.strip()
Strip(s) == StripRight(From(s, 1 + RunInside(s, WhiteSpace)))

LowerChar(ch) ==
    IF ch \in Range(UpperCase)
    THEN LowerCase[CHOOSE i \in 1..Len(UpperCase) : UpperCase[i] = ch]
    ELSE ch

\* the case of every letter is kept
KeepCase(s) == s

\* str.lower()
Lower(s) == [i \in 1..Len(s) |-> LowerChar(s[i])]

clean_text(s) == Lower(Strip(Collapse(StripNonAlpha(StripUrls(StripTags(s))))))

\* the characters of the strings tried
Alphabet == {"a", "t", "w", "W", "<", ">", " ", "\n", "1"}

InitClean ==
    /\ Constructed(<<>>, <<>>, FALSE)
    /\ opsLeft = 0
    /\ dbErrors = 0
    /\ text \in SeqsUpTo(Alphabet, MaxLen)
    /\ prev = <<>>
    /\ stage = "raw"

\* cleaned = clean_text(text)
Clean ==
    /\ stage = "raw"
    /\ prev' = text
    /\ text' = clean_text(text)
    /\ stage' = "once"
    /\ UNCHANGED appVars

\* clean_text(cleaned)
CleanAgain ==
    /\ stage = "once"
    /\ prev' = text
    /\ text' = clean_text(text)
    /\ stage' = "twice"
    /\ UNCHANGED appVars

NextClean == Clean \/ CleanAgain

SpecClean == InitClean /\ [][NextClean]_vars

\* ===================================================================== claims
IsRequest(t) == op[t] \in Requests

\* C1: the vectorizer, matrix and documents a match request has read all come
\* from one complete cache entry of its corpus: the entry as it stood before
\* some rebuild started writing it or after that rebuild finished with it.
C1_OneSnapshot ==
    \A t \in Threads :
        IsRequest(t) /\ pc[t] \in {"rank", "done", "raised"} /\ loc[t].vectorizer /= None =>
            \E e \in loc[t].seen :
                /\ e.vectorizer = loc[t].vectorizer
                /\ e.matrix = loc[t].matrix
                /\ (pc[t] = "done" \/ loc[t].exc = "IndexError") => e.docs = loc[t].docs

\* C2: at most one execution of load_data is in flight.
C2_OneRebuildInFlight == Cardinality({t \in Threads : pc[t] \in LoadPcs}) <= 1

\* request t has gone through the ranking loop and returned its matches
Ranked(t) == IsRequest(t) /\ pc[t] = "done" /\ ~loc[t].empty

\* C3 as stated: a returned match list has at most K entries and every
\* returned score is > 0.
C3_ScoresPositive ==
    \A t \in Threads :
        IsRequest(t) /\ pc[t] = "done" =>
            /\ Len(loc[t].matches) <= K
            /\ \A i \in 1..Len(loc[t].matches) : loc[t].matches[i].score > 0

\* C3 amended: a returned match list has at most K entries; every returned
\* match is a document whose cosine similarity is > 0, and its returned score,
\* that similarity as a percentage rounded to two decimals, is >= 0.
C3_CosinePositive ==
    \A t \in Threads :
        IsRequest(t) /\ pc[t] = "done" =>
            /\ Len(loc[t].matches) <= K
            /\ \A i \in 1..Len(loc[t].matches) :
                  /\ loc[t].matches[i].score >= 0
                  /\ \E j \in 1..Len(loc[t].docs) :
                        /\ loc[t].docs[j].id = loc[t].matches[i].id
                        /\ loc[t].cosine_sim[j] > 0
                        /\ loc[t].matches[i].score = RoundScore(loc[t].cosine_sim[j])

\* C3 witness: a request has returned K matches out of more than K documents
\* of positive similarity; one of the returned scores is 0.00.
C3_Witness ==
    \E t \in Threads :
        /\ Ranked(t)
        /\ Len(loc[t].matches) = K
        /\ Cardinality(Positive(loc[t].cosine_sim)) > K
        /\ \E i \in 1..Len(loc[t].matches) : loc[t].matches[i].score = 0

\* the place of the document with this id in the list the request read
PosOf(t, id) == CHOOSE j \in 1..Len(loc[t].docs) : loc[t].docs[j].id = id

\* C4: the returned matches are in descending order of score, and matches of
\* equal score are in the order of their documents in the cached list.
C4_SortedStable ==
    \A t \in Threads :
        Ranked(t) =>
            \A i, j \in 1..Len(loc[t].matches) :
                i < j =>
                    /\ loc[t].matches[i].score >= loc[t].matches[j].score
                    /\ loc[t].matches[i].score = loc[t].matches[j].score =>
                          PosOf(t, loc[t].matches[i].id) < PosOf(t, loc[t].matches[j].id)

\* C4 witness: a returned list with two matches of equal score, and with a
\* match that stands before one of a document earlier in the corpus.
C4_Witness ==
    \E t \in Threads :
        /\ Ranked(t)
        /\ \E i, j \in 1..Len(loc[t].matches) :
              i < j /\ loc[t].matches[i].score = loc[t].matches[j].score
        /\ \E i, j \in 1..Len(loc[t].matches) :
              /\ i < j /\ loc[t].matches[i].score > loc[t].matches[j].score
              /\ PosOf(t, loc[t].matches[i].id) > PosOf(t, loc[t].matches[j].id)

\* a call of load_data by thread t has returned, and every store query of
\* the behaviour went through
Rebuilt(t) == loc[t].loaded /\ pc[t] \notin LoadPcs /\ dbErrors = 0

\* C5: when a rebuild has completed (one operation after the other, no store
\* query failing), the cache entry of each corpus is the one built from the
\* rows of the store: nothing of the previous corpus is left.
C5_CacheReflectsStore ==
    \A t \in Threads :
        Rebuilt(t) => \A c \in Corpora : Entry(DATA_CACHE, c) = Built(store[c])

\* C6: no match request raises, already when every store query goes through.
C6_NeverRaises == \A t \in Threads : IsRequest(t) /\ dbErrors = 0 => pc[t] /= "raised"

\* C7: while no rebuild is running (and already when every store query goes
\* through), a cached matrix has as many rows as the cached document list of
\* its corpus has documents.
C7_RowsMatchDocs ==
    (\A t \in Threads : pc[t] \notin LoadPcs) /\ dbErrors = 0 =>
        \A c \in Corpora :
            DATA_CACHE[MatKey(c)] /= None =>
                Len(DATA_CACHE[MatKey(c)][1]) = Len(DATA_CACHE[c])

\* C8: clean_text(clean_text(x)) = clean_text(x).
C8_Idempotent == stage = "twice" => text = prev

\* C9: a request that finds the cached document list of its corpus empty
\* returns the empty match list and raises nothing; and (one operation after
\* the other, no store query failing) so does a request whose lazy rebuild
\* found the table of its corpus empty.
C9_EmptyCorpusEmptyResult ==
    \A t \in Threads :
        IsRequest(t) =>
            /\ loc[t].empty => pc[t] = "done" /\ loc[t].matches = <<>> /\ loc[t].exc = ""
            /\ Rebuilt(t) /\ store[CorpusOf(op[t])] = <<>> =>
                  /\ pc[t] \in {"empty", "done"}
                  /\ loc[t].matches = <<>>
                  /\ pc[t] = "done" => loc[t].empty

\* C9 witness: a request has run its lazy rebuild, which found the table of
\* its corpus empty and the other table not, and has returned the empty list.
C9_Witness ==
    \E t \in Threads :
        /\ IsRequest(t) /\ pc[t] = "done" /\ loc[t].empty
        /\ Rebuilt(t) /\ store[CorpusOf(op[t])] = <<>>
        /\ DATA_CACHE[CorpusOf(op[t])] = <<>>
        /\ store[IF CorpusOf(op[t]) = "jobs" THEN "resumes" ELSE "jobs"] /= <<>>

\* C10: a request that has scored its query has scored it against a matrix
\* that was in the cache, not against None.
C10_ScoredAgainstCache ==
    \A t \in Threads :
        IsRequest(t) /\ pc[t] \in {"rank", "done"} /\ loc[t].vectorizer /= None =>
            loc[t].matrix /= None

\* C11 (already when every store query goes through): a document of the
\* cached corpus that shares no token with the query has similarity 0 and is
\* in no returned match list, and a query without a token of the fitted
\* vocabulary gets the empty list.
C11_DisjointScoresZero ==
    \A t \in Threads :
        Ranked(t) /\ dbErrors = 0 =>
            /\ \A j \in 1..Len(loc[t].docs) :
                  Tokens(loc[t].docs[j].body) \cap Tokens(loc[t].query) = {} =>
                      /\ j <= Len(loc[t].cosine_sim) => loc[t].cosine_sim[j] = 0
                      /\ \A i \in 1..Len(loc[t].matches) :
                            loc[t].matches[i].id /= loc[t].docs[j].id
            /\ Tokens(loc[t].query) \cap Range(loc[t].vectorizer[1].vocabulary) = {} =>
                  loc[t].matches = <<>>

\* C12 (already when every store query goes through): when a match request
\* has finished, by returning or by raising, the upload it saved is deleted.
C12_UploadDeleted ==
    \A t \in Threads :
        IsRequest(t) /\ pc[t] \in {"done", "raised"} /\ dbErrors = 0 => ~loc[t].file

\* the corpus an operation is performed for
OwnCorpus(o) == IF o \in Requests THEN CorpusOf(o) ELSE PopCorpus(o)

\* C13 (already when every store query goes through): a step of a match
\* request or of a populate call leaves the populated cache entry of the other
\* corpus as it is; only an operation for a corpus changes that corpus's entry.
C13_OtherCorpusUntouched ==
    [][\A t \in Threads, c \in Corpora :
          /\ pc'[t] /= pc[t] /\ op[t] \in Requests \cup {"populate_jobs", "populate_resumes"}
          /\ OwnCorpus(op[t]) /= c /\ ~CacheAbsent(c) /\ ~MidSwap(pc, loc, c) /\ dbErrors' = 0
          => Entry(DATA_CACHE', c) = Entry(DATA_CACHE, c)]_vars

\* C14 (already when every store query goes through): a match request on a
\* corpus that some load_data has already rebuilt does not call load_data.
C14_NoSecondRebuild ==
    [][\A t \in Threads :
          pc[t] = "idle" /\ pc'[t] = "ld_read" /\ op'[t] \in Requests /\ dbErrors = 0
          => CorpusOf(op'[t]) \notin rebuilt]_vars

\* no load_data is running
NoLoadRuns == \A t \in Threads : pc[t] \notin LoadPcs

\* C15: when load_data has run twice in succession over an unchanged store,
\* the cache is as the first run left it, or as the first run would have left
\* it had none of its store queries raised.
C15_RebuildIdempotent ==
    NoLoadRuns /\ lastLoad /= None /\ lastLoad[1].runs = 2 => DATA_CACHE = lastLoad[1].expect

\* C15 witness: a second run in succession has returned, the first had a
\* store query raise, and the cache holds a vector space.
C15_Witness ==
    /\ NoLoadRuns /\ lastLoad /= None /\ lastLoad[1].runs = 2 /\ lastLoad[1].afterFailure
    /\ \E c \in Corpora : ~CacheAbsent(c)

RECURSIVE Split(_)
\* str.split(): the words of s, in order
Split(s) ==
    IF s = <<>> THEN <<>>
    ELSE IF Head(s) \in WhiteSpace THEN Split(Tail(s))
    ELSE <<SubSeq(s, 1, RunOutside(s, WhiteSpace))>> \o Split(From(s, 1 + RunOutside(s, WhiteSpace)))

RECURSIVE Join(_)
\* ' '.join(words)
Join(words) ==
    IF words = <<>> THEN <<>>
    ELSE IF Len(words) = 1 THEN words[1]
    ELSE words[1] \o <<" ">> \o Join(Tail(words))

\* and, the, is, in, at, of, a, with, using, for, to, an, or, by, on
StopWords ==
    {<<"a", "n", "d">>, <<"t", "h", "e">>, <<"i", "s">>, <<"i", "n">>, <<"a", "t">>,
     <<"o", "f">>, <<"a">>, <<"w", "i", "t", "h">>, <<"u", "s", "i", "n", "g">>,
     <<"f", "o", "r">>, <<"t", "o">>, <<"a", "n">>, <<"o", "r">>, <<"b", "y">>, <<"o", "n">>}

C17_LowerAndSingleSpaces ==
    stage /= "raw" =>
        /\ \A i \in 1..Len(text) : text[i] \in Range(LowerCase) \cup {" "}
        /\ \A i \in 1..(Len(text) - 1) : ~(text[i] = " " /\ text[i + 1] = " ")
        /\ text /= <<>> => text[1] /= " " /\ text[Len(text)] /= " "
        /\ prev = <<>> => text = <<>>

\* C17 witness: clean_text has returned two words or more from an input with
\* an upper-case letter, a run of whitespace and a character that is no letter.
C17_Witness ==
    /\ stage = "once"
    /\ \E i \in 1..Len(text) : text[i] = " "
    /\ \E i \in 1..Len(prev) : prev[i] \in Range(UpperCase)
    /\ \E i \in 1..(Len(prev) - 1) : prev[i] \in WhiteSpace /\ prev[i + 1] \in WhiteSpace
    /\ \E i \in 1..Len(prev) : prev[i] \notin Letters \cup WhiteSpace

\* C18: no step of a match request that has found its corpus's cache entry
\* populated (it has not called load_data) changes any field of DATA_CACHE,
\* whatever the terms of its query.
C18_RequestKeepsCache ==
    [][\A t \in Threads :
          /\ pc'[t] /= pc[t]
          /\ op[t] \in Requests \/ op'[t] \in Requests
          /\ ~loc[t].loaded /\ ~loc'[t].loaded
          => DATA_CACHE' = DATA_CACHE]_vars

\* C18 witness: a request that has not called load_data has ranked a query
\* with a term outside the fitted vocabulary against a corpus that is not
\* empty, and the cache still holds the vectorizer, matrix and documents it
\* has read.
C18_Witness ==
    \E t \in Threads :
        /\ Ranked(t) /\ ~loc[t].loaded
        /\ loc[t].docs /= <<>>
        /\ Tokens(loc[t].query) \ Range(loc[t].vectorizer[1].vocabulary) /= {}
        /\ Entry(DATA_CACHE, CorpusOf(op[t])) =
              [docs |-> loc[t].docs, vectorizer |-> loc[t].vectorizer, matrix |-> loc[t].matrix]

Populates == {"populate_jobs", "populate_resumes"}

\* C19: when a populate call that has deleted or added rows is about to
\* return, and no query has raised, it has run load_data and the cached
\* documents of its corpus are the rows of the table.
C19_PopulateRebuilds ==
    \A t \in Threads :
        op[t] \in Populates /\ pc[t] = "done" /\ loc[t].changed /\ dbErrors = 0 =>
            /\ loc[t].loaded
            /\ DATA_CACHE[PopCorpus(op[t])] = store[PopCorpus(op[t])]

\* thread t is in the resumes block of a load_data call whose jobs query raised
JobsReadFailed(t) ==
    /\ pc[t] \in LoadPcs /\ loc[t].lc = "resumes"
    /\ loc[t].before /= None /\ loc[t].before[1].errs < dbErrors

\* C20: the step of load_data in which the query of one corpus raises changes
\* no field of DATA_CACHE and goes on to the block of the other corpus, or
\* returns to the caller when it was the second block, without raising; and
\* while the call that has failed to read the jobs rebuilds the resumes, the
\* documents, vectorizer and matrix of the jobs are those the call has found.
C20_FailedReadKeepsEntry ==
    /\ [](\A t \in Threads :
             JobsReadFailed(t) => Entry(DATA_CACHE, "jobs") = Entry(loc[t].before[1].cache, "jobs"))
    /\ [][\A t \in Threads :
             pc[t] = "ld_read" /\ loc'[t] /= loc[t] /\ dbErrors' /= dbErrors =>
                /\ DATA_CACHE' = DATA_CACHE
                /\ IF loc[t].lc = "jobs"
                   THEN pc'[t] = "ld_read" /\ loc'[t].lc = "resumes"
                   ELSE pc'[t] = loc[t].ret /\ pc'[t] /= "raised"]_vars

\* C20 witness: the jobs query of a load_data call has raised over a table
\* that has changed since the cache was built, the populated jobs entry is
\* kept, and the call is storing the matrix of the resumes.
C20_Witness ==
    \E t \in Threads :
        /\ JobsReadFailed(t) /\ pc[t] = "ld_mat"
        /\ ~CacheAbsent("jobs")
        /\ DATA_CACHE.jobs /= store.jobs

====
